---- MODULE Spec2Model ----
(***************************************************************************)
(* Model of the HTTP-based TypeDB driver (app/lambda/typedb_http_driver.py) *)
(* TypeDBHttpDriver, Transaction and QueryResult, against a server that    *)
(* may answer every exchange with any status, body or network failure.     *)
(* A call advances one HTTP exchange at a time: the driver suspends only   *)
(* at the HTTP boundary.                                                   *)
(***************************************************************************)
EXTENDS Integers, Sequences, FiniteSets, Bags, TLC

(***************************************************************************)
(* Bounds of the model.                                                    *)
(***************************************************************************)
\* distinct tokens the sign-in endpoint can hand out
NumTokens == 2
\* distinct transaction identifiers the server can assign
NumTxIds == 2
\* number of times __exit__ may close one Transaction object
MaxExits == 2
\* exchanges of one call that may fail before the request reaches the server
MaxConnectFailures == 1

(***************************************************************************)
(* Values.  Python's None is 0 for tokens, identifiers and numbers (tokens *)
(* and identifiers are non-empty strings, numbered from 1) and "None" for  *)
(* text fields.                                                            *)
(***************************************************************************)
None == 0
NoneStr == "None"
Tokens == 1..NumTokens
TxIds == 1..NumTxIds
\* the statuses the modelled server answers with
Statuses == {200, 401, 404, 503}
\* the answer-type tags a query response may carry ("absent": no tag)
AnswerTags == {"ok", "conceptRows", "conceptDocuments", "absent"}
\* the answer sequences a query response may carry
AnswerSeqs == {<< >>, <<"a1">>}

\* DriverParams(username, password, addresses)
DriverParams == [username |-> "admin", password |-> "password"]

\* A response body: empty content, content that is not JSON, or a JSON object
\* of which the fields the driver reads are kept ("absent"/None/hasAnswers
\* FALSE: the object has no such field).
EmptyObject ==
    [kind |-> "json", token |-> None, transactionId |-> None,
     answerType |-> "absent", hasAnswers |-> FALSE, answers |-> << >>,
     message |-> "absent", code |-> "absent"]
EmptyBody == [EmptyObject EXCEPT !.kind = "empty"]
MalformedBody == [EmptyObject EXCEPT !.kind = "malformed"]
TokenBody(t) == [EmptyObject EXCEPT !.token = t]
TransactionBody(id) == [EmptyObject EXCEPT !.transactionId = id]
AnswerBody(tag, has, answers) ==
    [EmptyObject EXCEPT !.answerType = tag, !.hasAnswers = has, !.answers = answers]
ErrorBody(message, code) == [EmptyObject EXCEPT !.message = message, !.code = code]

\* TypeDBHttpError(message, code, status_code); other exception types keep
\* their own type name.
TypeDBHttpError(message, code, status_code) ==
    [message |-> message, code |-> code, status_code |-> status_code,
     type |-> "TypeDBHttpError"]
KeyError == [type |-> "KeyError", message |-> "key", code |-> NoneStr,
             status_code |-> None]
NoError == [type |-> "none", message |-> "", code |-> NoneStr, status_code |-> None]

\* a request handed to session.request: method, url path, json body, params
Path(ep, id) == [id |-> id, ep |-> ep]
Request(method, path, data, params) ==
    [method |-> method, path |-> path, data |-> data, params |-> params]
\* json=None and json={}
NoData == [none |-> TRUE]
EmptyData == [none |-> FALSE]
NoParams == "None"

(***************************************************************************)
(* The server and the network: one HTTP exchange is answered by a status   *)
(* and a body, or fails: before the request reached the server (connection *)
(* refused, connect timeout) or after (read timeout, connection lost).     *)
(***************************************************************************)
Exchange(net, status, body) == [net |-> net, status |-> status, body |-> body]
ConnectFailure == Exchange("connect_failed", None, EmptyBody)
ReadFailure == Exchange("read_failed", None, EmptyBody)
Refused(answer) == IF answer.net = "connect_failed" THEN 1 ELSE 0

SuccessBodies(ep) ==
    CASE ep = "/v1/signin" ->
           {EmptyBody, MalformedBody, EmptyObject} \cup {TokenBody(t) : t \in Tokens}
      [] ep = "/v1/transactions/open" ->
           {EmptyBody, MalformedBody, EmptyObject} \cup {TransactionBody(i) : i \in TxIds}
      [] ep \in {"/v1/transactions/{id}/query", "/v1/query"} ->
           {EmptyBody, MalformedBody}
             \cup {AnswerBody(t, FALSE, << >>) : t \in AnswerTags}
             \cup {AnswerBody(t, TRUE, a) : t \in AnswerTags, a \in AnswerSeqs}
      [] OTHER -> {EmptyBody, MalformedBody, EmptyObject}

ErrorBodies == {EmptyBody, MalformedBody, EmptyObject, ErrorBody("msg", "DVL9")}

ServerAnswers(req) ==
    {ReadFailure}
      \cup {Exchange("ok", s, b) : s \in {x \in Statuses : x < 400},
                                   b \in SuccessBodies(req.path.ep)}
      \cup {Exchange("ok", s, b) : s \in {x \in Statuses : x >= 400}, b \in ErrorBodies}

(***************************************************************************)
(* The session's retry adapter: Retry(total=2, backoff_factor=0.5,         *)
(* status_forcelist=[429, 500, 502, 503, 504]) mounted on the session.     *)
(***************************************************************************)
total == 2
\* a forcelist that also holds 404
status_forcelist_with_404 == {404, 429, 500, 502, 503, 504}

status_forcelist == {429, 500, 502, 503, 504}
\* Retry's allowed_methods is left at its default, which has no POST
allowed_methods == {"HEAD", "GET", "PUT", "DELETE", "OPTIONS", "TRACE"}

\* Retry.is_retry / Retry.increment: an exchange that failed before the
\* request reached the server is retried for every request; one that failed
\* later, or was answered a status of the forcelist, only for a request
\* whose method is allowed
is_retry(method, answer) ==
    \/ answer.net = "connect_failed"
    \/ /\ method \in allowed_methods
       /\ \/ answer.net = "read_failed"
          \/ answer.net = "ok" /\ answer.status \in status_forcelist

\* One exchange inside session.request / session.post (urllib3's urlopen
\* under the mounted adapter), with `retries` retries left: the exchange is
\* tried again ("retry"), the send raises a RequestException ("raise": the
\* retries ran out, or a failed exchange is not retried), or the response is
\* handed back ("return").
urlopen(method, retries, answer) ==
    IF is_retry(method, answer)
      THEN IF retries = 0 THEN "raise" ELSE "retry"
    ELSE IF answer.net /= "ok"
      THEN "raise"
    ELSE "return"

(***************************************************************************)
(* TypeDBHttpDriver: token handling and transport.                         *)
(***************************************************************************)
AuthenticateFailed == TypeDBHttpError("Failed to authenticate", NoneStr, None)
RequestFailed == TypeDBHttpError("HTTP request failed", NoneStr, None)
InvalidJson == TypeDBHttpError("Invalid JSON response", NoneStr, None)

SignInRequest ==
    Request("POST", Path("/v1/signin", None), DriverParams, NoParams)

\* a _refresh_token that reads the body whatever the status
refresh_token_unchecked(tok, exc, response) ==
    LET failed(e) == [token |-> tok, err |-> e]
    IN  IF exc
          THEN failed(AuthenticateFailed)
        ELSE IF response.body.kind /= "json"
          THEN failed(AuthenticateFailed)
        ELSE IF response.body.token = None
          THEN failed(KeyError)
        ELSE [token |-> response.body.token, err |-> NoError]

\* _refresh_token, once session.post is over: tok is self.token before the
\* call, exc tells that session.post raised, response is what it returned.
\* The result holds self.token after the call and the error raised (NoError
\* when the token is returned).
refresh_token(tok, exc, response) ==
    LET failed(e) == [token |-> tok, err |-> e]
    IN  IF exc
          THEN failed(AuthenticateFailed)
        \* response.raise_for_status()
        ELSE IF response.status >= 400
          THEN failed(AuthenticateFailed)
        \* response.json(): its JSONDecodeError is a RequestException
        ELSE IF response.body.kind /= "json"
          THEN failed(AuthenticateFailed)
        \* data["token"]
        ELSE IF response.body.token = None
          THEN failed(KeyError)
        ELSE [token |-> response.body.token, err |-> NoError]

\* a _get_token that never signs in
AlwaysHasToken(tok) == TRUE

\* _get_token: whether the cached token is returned (no sign-in is made)
HasToken(tok) == tok /= None

\* a driver that keeps its token after a 401
KeptToken(tok) == tok

\* self.token after a 401 response to the first send
ExpiredToken(tok) == None

\* a replay that carries the header already built
StaleBearer(stale, fresh) == stale

\* the Authorization header of the replayed request: stale is the token the
\* first send carried, fresh the one _get_token() returned after the 401
ReplayBearer(stale, fresh) == fresh

\* a replay that loses the json body
ReplayWithoutBody(req) == [req EXCEPT !.data = NoData]

\* the request replayed after a 401
ReplayRequest(req) == req

\* a transport that drops the token on every error status
IsExpiredOnError(response, replayed) == response.status >= 400 /\ ~replayed
\* a transport that handles every 401 as the first one
IsExpiredAgain(response, replayed) == response.status = 401
\* whether a response makes _make_request refresh the token and replay:
\* replayed tells that the response is the replay's
IsExpired(response, replayed) == response.status = 401 /\ ~replayed

\* what a call hands to its caller: a value returned or an error raised
\* (list: the list an accessor of QueryResult hands back)
Returned(value) == [ok |-> TRUE, err |-> NoError, value |-> value, list |-> << >>]
Raised(err) == [ok |-> FALSE, err |-> err, value |-> EmptyObject, list |-> << >>]

HttpMessage(status) ==
    CASE status = 401 -> "HTTP 401"
      [] status = 404 -> "HTTP 404"
      [] status = 503 -> "HTTP 503"
      [] OTHER -> "HTTP"

\* _handle_response
handle_response(response) ==
    IF response.status >= 400
      THEN IF response.body.kind = "malformed"
             THEN Raised(InvalidJson)
             ELSE LET error_data == IF response.body.kind = "empty"
                                      THEN EmptyObject ELSE response.body
                  IN  Raised(TypeDBHttpError(
                          IF error_data.message = "absent"
                            THEN HttpMessage(response.status) ELSE error_data.message,
                          IF error_data.code = "absent" THEN NoneStr ELSE error_data.code,
                          response.status))
    ELSE IF response.body.kind = "empty"
      THEN Returned(EmptyObject)
    ELSE IF response.body.kind = "malformed"
      THEN Raised(InvalidJson)
    ELSE Returned(response.body)

(***************************************************************************)
(* TypeDBHttpDriver: the requests of the operations.  The values of the    *)
(* option fields are written as Python prints them ("None", "False", "0",  *)
(* "20000").  In a wire payload a key that is left out has the value       *)
(* Omitted; a key sent as null would have "None".                          *)
(***************************************************************************)
Omitted == "omitted"
db_name == "test-db"
\* class TransactionType
TransactionType == {"read", "write", "schema"}

\* TransactionOptions and QueryOptions objects; NoOptions is options=None
TransactionOptions(schema_lock, timeout) ==
    [given |-> TRUE, schema_lock_acquire_timeout_millis |-> schema_lock,
     transaction_timeout_millis |-> timeout]
NoTransactionOptions ==
    [given |-> FALSE, schema_lock_acquire_timeout_millis |-> NoneStr,
     transaction_timeout_millis |-> NoneStr]
QueryOptions(include, limit) ==
    [given |-> TRUE, include_instance_types |-> include, answer_count_limit |-> limit]
NoQueryOptions ==
    [given |-> FALSE, include_instance_types |-> NoneStr,
     answer_count_limit |-> NoneStr]

\* the values Python takes for false in "if x:"
Falsy == {NoneStr, "False", "0"}
\* a field put into the payload by "if x:" instead of "if x is not None:"
Field_if_truthy(x) == IF x \notin Falsy THEN x ELSE Omitted
\* "if x is not None: d[key] = x"
Field(x) == IF x /= NoneStr THEN x ELSE Omitted

\* the transactionOptions / queryOptions entry of a payload
transaction_options(options) ==
    IF options.given
      THEN [present |-> TRUE,
            schemaLockAcquireTimeoutMillis |-> Field(options.schema_lock_acquire_timeout_millis),
            transactionTimeoutMillis |-> Field(options.transaction_timeout_millis)]
      ELSE [present |-> FALSE, schemaLockAcquireTimeoutMillis |-> Omitted,
            transactionTimeoutMillis |-> Omitted]
query_options(options) ==
    IF options.given
      THEN [present |-> TRUE,
            includeInstanceTypes |-> Field(options.include_instance_types),
            answerCountLimit |-> Field(options.answer_count_limit)]
      ELSE [present |-> FALSE, includeInstanceTypes |-> Omitted,
            answerCountLimit |-> Omitted]

\* the request each operation hands to _make_request
get_databases == Request("GET", Path("/v1/databases", None), NoData, NoParams)

create_database(name) ==
    Request("POST", Path("/v1/databases/{name}", None), EmptyData, NoParams)

delete_database(name) ==
    Request("DELETE", Path("/v1/databases/{name}", None), NoData, NoParams)

open_transaction(database_name, transaction_type, options) ==
    Request("POST", Path("/v1/transactions/open", None),
            [databaseName |-> database_name, transactionType |-> transaction_type,
             transactionOptions |-> transaction_options(options)],
            NoParams)

commit_transaction(transaction_id) ==
    Request("POST", Path("/v1/transactions/{id}/commit", transaction_id), EmptyData, NoParams)

close_transaction(transaction_id) ==
    Request("POST", Path("/v1/transactions/{id}/close", transaction_id), EmptyData, NoParams)

rollback_transaction(transaction_id) ==
    Request("POST", Path("/v1/transactions/{id}/rollback", transaction_id), EmptyData,
            NoParams)

query(transaction_id, text, options) ==
    Request("POST", Path("/v1/transactions/{id}/query", transaction_id),
            [query |-> text, queryOptions |-> query_options(options)], NoParams)

\* a one-shot query that begins by opening a transaction
one_shot_query_by_open(text, commit, database_name, transaction_type, tx_options, q_options) ==
    Request("POST", Path("/v1/transactions/open", None),
            [databaseName |-> database_name, transactionType |-> transaction_type,
             transactionOptions |-> transaction_options(tx_options)],
            NoParams)

one_shot_query(text, commit, database_name, transaction_type, tx_options, q_options) ==
    Request("POST", Path("/v1/query", None),
            [query |-> text, commit |-> commit, databaseName |-> database_name,
             transactionType |-> transaction_type,
             transactionOptions |-> transaction_options(tx_options),
             queryOptions |-> query_options(q_options)],
            NoParams)

\* an open_transaction that hands every caller the same identifier
TransactionIdFixed(out) ==
    IF out.ok THEN Returned(TransactionBody(1)) ELSE out

\* open_transaction: return data["transactionId"]
TransactionIdOf(out) ==
    IF out.ok /\ out.value.transactionId = None THEN Raised(KeyError) ELSE out

(***************************************************************************)
(* QueryResult                                                             *)
(***************************************************************************)
\* QueryResult(response): response.get("answerType", "ok"),
\* response.get("answers", [])
QueryResult(response) ==
    [present |-> TRUE, response |-> response,
     answer_type |-> IF response.answerType = "absent" THEN "ok" ELSE response.answerType,
     answers |-> IF response.hasAnswers THEN response.answers ELSE << >>]
NoResult ==
    [present |-> FALSE, response |-> EmptyObject, answer_type |-> "ok", answers |-> << >>]

CannotGetRows == TypeDBHttpError("Cannot get concept rows", NoneStr, None)
CannotGetDocuments == TypeDBHttpError("Cannot get concept documents", NoneStr, None)
\* a list handed back by an accessor
ReturnedList(list) == [Returned(EmptyObject) EXCEPT !.list = list]

as_concept_documents(self) ==
    IF self.answer_type /= "conceptDocuments"
      THEN Raised(CannotGetDocuments)
      ELSE ReturnedList(self.answers)

\* a rows accessor that takes an untagged or "ok" response for an empty result
as_concept_rows_lenient(self) ==
    IF self.answer_type \in {"conceptRows", "ok"}
      THEN ReturnedList(self.answers)
      ELSE Raised(CannotGetRows)

as_concept_rows(self) ==
    IF self.answer_type /= "conceptRows"
      THEN Raised(CannotGetRows)
      ELSE ReturnedList(self.answers)

(***************************************************************************)
(* Transaction                                                             *)
(***************************************************************************)
\* Transaction.__init__, with what is observed of the object: where its
\* with-block stands (scope), the close_transaction calls __exit__ made for
\* it (close_calls), which of commit and rollback succeeded first
\* (finished), whether a close succeeded (closed)
Transaction(database_name, transaction_type, options) ==
    [options |-> options, database_name |-> database_name,
     transaction_type |-> transaction_type, transaction_id |-> None,
     scope |-> "new", close_calls |-> 0, finished |-> "no",
     closed |-> FALSE]

NotOpen == TypeDBHttpError("Transaction not open", NoneStr, None)

\* "if not self.transaction_id: raise TypeDBHttpError("Transaction not open")"
\* of query, commit and rollback
not_open(self) == self.transaction_id = None

\* an __exit__ that leaves a committed or rolled back transaction alone
exit_closes_unfinished(self) == self.transaction_id /= None /\ self.finished = "no"

\* "if self.transaction_id:" of __exit__
exit_closes(self) == self.transaction_id /= None

\* an __enter__ that lets the with-block run whatever open_transaction did
enter_always(self, out) ==
    [self EXCEPT !.transaction_id = out.value.transactionId, !.scope = "body"]

\* __enter__: self.transaction_id = self.driver.open_transaction(...); out is
\* what open_transaction handed back
enter(self, out) ==
    IF out.ok
      THEN [self EXCEPT !.transaction_id = out.value.transactionId, !.scope = "body"]
      ELSE [self EXCEPT !.scope = "failed"]

\* the Transaction object once the call `op` on it is over
TransactionAfter(self, op, out) ==
    CASE op = "__enter__" -> enter(self, out)
      [] op = "Transaction.commit" ->
           [self EXCEPT !.finished = IF out.ok /\ @ = "no" THEN "committed" ELSE @]
      [] op = "Transaction.rollback" ->
           [self EXCEPT !.finished = IF out.ok /\ @ = "no" THEN "rolled_back" ELSE @]
      [] op = "__exit__" -> [self EXCEPT !.closed = @ \/ out.ok]
      [] OTHER -> self

(***************************************************************************)
(* State.                                                                  *)
(*   drv    whether a TypeDBHttpDriver has been constructed                *)
(*   token  the driver's self.token                                        *)
(*   tx     the Transaction object in use                                  *)
(*   call   the call in progress or just over: where it stands (pc: in the *)
(*          sign-in exchange, in the exchange of its request, done), the   *)
(*          operation and its argument, its request, the token cached when *)
(*          it began, the sign-in exchanges and the sends made so far, the *)
(*          bearer of the request's Authorization header, the statuses of  *)
(*          the exchanges of the send in progress, the retries left to it  *)
(*          and the exchanges the network refused so far (refused),        *)
(*          whether the send is the replay after a 401, the Transaction    *)
(*          object as it was when the call began (pre) and, once done, the *)
(*          response _make_request returned, what the call handed back     *)
(*          (out) and the QueryResult it built                             *)
(***************************************************************************)
VARIABLES drv, token, tx, call

vars == <<drv, token, tx, call>>

\* the queries and options callers use
Queries == {"q"}
TransactionOptionChoices == {NoTransactionOptions, TransactionOptions(NoneStr, "20000")}
QueryOptionChoices == {NoQueryOptions, QueryOptions(NoneStr, "1")}
\* the transactions callers open in with-blocks: write transactions with
\* the handler's _transaction_options()
transaction_options_of_handler == TransactionOptions(NoneStr, "20000")
\* how a with-block is left: by normal completion or early return (__exit__
\* is handed no exception), or by a propagated failure
ExitPaths == {"normal", "raise"}

NoRequest == Request("", Path("", None), NoData, NoParams)
NoResponse == Exchange("none", None, EmptyBody)

\* what may happen to the next exchange of the call c
Answers(c, req) ==
    ServerAnswers(req) \cup (IF c.refused < MaxConnectFailures
                               THEN {ConnectFailure} ELSE {})

\* a call that begins: _make_request builds its headers with _get_token()
NewCall(op, arg, req) ==
    [pc |-> IF HasToken(token) THEN "request" ELSE "signin",
     op |-> op, arg |-> arg, req |-> req, tokenBefore |-> token,
     signins |-> << >>, sends |-> << >>, bearer |-> token, trace |-> << >>,
     refused |-> 0,
     retries |-> total, replay |-> FALSE, pre |-> tx, response |-> NoResponse,
     out |-> Returned(EmptyObject), result |-> NoResult]

\* a call that is over
Done(c, out, result) ==
    [c EXCEPT !.pc = "done", !.out = out, !.result = result, !.trace = << >>,
              !.retries = total]

Idle == call.pc \in {"idle", "done"}

Init ==
    /\ drv = "absent"
    /\ token = None
    /\ tx = Transaction(db_name, "write", transaction_options_of_handler)
    /\ call = [NewCall("", "", NoRequest) EXCEPT !.pc = "idle"]

\* the call c ends handing back out0 (open_transaction then reads the
\* identifier; Transaction.query wraps the response in a QueryResult)
Complete(c, out0) ==
    LET out == IF c.op \in {"open_transaction", "__enter__"}
                 THEN TransactionIdOf(out0) ELSE out0
    IN  /\ call' = Done(c, out, IF c.op = "Transaction.query" /\ out.ok
                                  THEN QueryResult(out.value) ELSE NoResult)
        \* a constructor that raises leaves no driver
        /\ drv' = IF c.op = "__init__"
                    THEN (IF out.ok THEN "ready" ELSE "absent") ELSE drv
        /\ tx' = TransactionAfter(tx, c.op, out)

\* a call that reaches no transport
Local(op, arg, out, result) ==
    call' = Done(NewCall(op, arg, NoRequest), out, result)

\* TypeDBHttpDriver.__init__: self.token = None, then self._get_token()
Construct ==
    /\ drv = "absent"
    /\ Idle
    /\ token' = None
    /\ call' = [NewCall("__init__", "", NoRequest) EXCEPT !.pc = "signin",
                                                          !.tokenBefore = None,
                                                          !.bearer = None]
    /\ UNCHANGED <<drv, tx>>

\* one exchange of the sign-in request of _refresh_token
SignIn ==
    /\ call.pc = "signin"
    /\ \E a \in Answers(call, SignInRequest) :
         LET step == urlopen(SignInRequest.method, call.retries, a)
             tr == Append(call.trace, a.status)
         IN  IF step = "retry"
               THEN /\ call' = [call EXCEPT !.retries = @ - 1, !.trace = tr,
                                             !.refused = @ + Refused(a)]
                    /\ UNCHANGED <<drv, token, tx>>
               ELSE LET r == refresh_token(token, step = "raise", a)
                        c == [call EXCEPT !.signins = Append(@, [token |-> r.token,
                                                                  err |-> r.err,
                                                                  trace |-> tr]),
                                          !.trace = << >>, !.retries = total,
                                          !.refused = @ + Refused(a)]
                    IN  /\ token' = r.token
                        /\ IF r.err = NoError /\ call.op /= "__init__"
                             THEN /\ call' = [c EXCEPT !.pc = "request",
                                                !.bearer = IF call.replay
                                                             THEN ReplayBearer(@, r.token)
                                                             ELSE r.token]
                                  /\ UNCHANGED <<drv, tx>>
                             ELSE Complete(c, IF r.err = NoError
                                                THEN Returned(EmptyObject)
                                                ELSE Raised(r.err))

\* one exchange of the request of _make_request, first send or replay
Respond ==
    /\ call.pc = "request"
    /\ LET req == IF call.replay THEN ReplayRequest(call.req) ELSE call.req
       IN  \E a \in Answers(call, req) :
             LET step == urlopen(req.method, call.retries, a)
                 tr == Append(call.trace, a.status)
                 sent == [call EXCEPT !.sends = Append(@, [req |-> req,
                                                           bearer |-> call.bearer,
                                                           trace |-> tr]),
                                      !.trace = << >>, !.retries = total,
                                      !.refused = @ + Refused(a)]
             IN  IF step = "retry"
                   THEN /\ call' = [call EXCEPT !.retries = @ - 1, !.trace = tr,
                                                 !.refused = @ + Refused(a)]
                        /\ UNCHANGED <<drv, token, tx>>
                 ELSE IF step = "raise"
                   THEN /\ Complete(sent, Raised(RequestFailed))
                        /\ UNCHANGED token
                 ELSE IF IsExpired(a, call.replay)
                   \* self.token = None; headers["Authorization"] = _get_token()
                   THEN LET tok == ExpiredToken(token)
                        IN  /\ token' = tok
                            /\ call' = [sent EXCEPT
                                          !.replay = TRUE,
                                          !.pc = IF HasToken(tok) THEN "request"
                                                 ELSE "signin",
                                          !.bearer = IF HasToken(tok)
                                                       THEN ReplayBearer(@, tok) ELSE @]
                            /\ UNCHANGED <<drv, tx>>
                 ELSE /\ Complete([sent EXCEPT !.response = a], handle_response(a))
                      /\ UNCHANGED token


\* a driver operation begins: its request goes to _make_request
Start(op, arg, req) ==
    /\ drv = "ready"
    /\ Idle
    /\ call' = NewCall(op, arg, req)
    /\ UNCHANGED <<drv, token>>

(***************************************************************************)
(* The driver's operations, called on the driver itself.                   *)
(***************************************************************************)
GetDatabases == Start("get_databases", "", get_databases) /\ UNCHANGED tx
CreateDatabase ==
    Start("create_database", db_name, create_database(db_name)) /\ UNCHANGED tx
DeleteDatabase ==
    Start("delete_database", db_name, delete_database(db_name)) /\ UNCHANGED tx
OpenTransaction ==
    /\ \E ty \in TransactionType, o \in TransactionOptionChoices :
         Start("open_transaction", ty, open_transaction(db_name, ty, o))
    /\ UNCHANGED tx
CommitTransaction ==
    /\ \E id \in TxIds : Start("commit_transaction", "", commit_transaction(id))
    /\ UNCHANGED tx
CloseTransaction ==
    /\ \E id \in TxIds : Start("close_transaction", "", close_transaction(id))
    /\ UNCHANGED tx
RollbackTransaction ==
    /\ \E id \in TxIds : Start("rollback_transaction", "", rollback_transaction(id))
    /\ UNCHANGED tx
DriverQuery ==
    /\ \E id \in TxIds, q \in Queries, o \in QueryOptionChoices :
         Start("query", q, query(id, q, o))
    /\ UNCHANGED tx
OneShotQuery ==
    /\ \E q \in Queries, commit \in BOOLEAN, ty \in TransactionType :
         Start("one_shot_query", q,
               one_shot_query(q, commit, db_name, ty, NoTransactionOptions,
                              NoQueryOptions))
    /\ UNCHANGED tx

(***************************************************************************)
(* The Transaction object and the QueryResult it hands back.               *)
(***************************************************************************)
\* Transaction(driver, database_name, transaction_type, options)
NewTransaction ==
    /\ drv = "ready"
    /\ Idle
    /\ tx' = Transaction(db_name, "write", transaction_options_of_handler)
    /\ call' = [Done(NewCall("Transaction", "", NoRequest), Returned(EmptyObject),
                     NoResult) EXCEPT !.pre = tx']
    /\ UNCHANGED <<drv, token>>

\* "with Transaction(...) as tx:" enters: __enter__
Enter ==
    /\ tx.scope = "new"
    /\ Start("__enter__", "",
             open_transaction(tx.database_name, tx.transaction_type, tx.options))
    /\ UNCHANGED tx

\* a method of Transaction that needs an open transaction
Method(op, arg, req) ==
    /\ IF not_open(tx)
         THEN /\ drv = "ready"
              /\ Idle
              /\ Local(op, arg, Raised(NotOpen), NoResult)
              /\ UNCHANGED <<drv, token>>
         ELSE Start(op, arg, req)
    /\ UNCHANGED tx

TransactionQuery ==
    \E q \in Queries :
        Method("Transaction.query", q, query(tx.transaction_id, q, NoQueryOptions))
Commit == Method("Transaction.commit", "", commit_transaction(tx.transaction_id))
Rollback == Method("Transaction.rollback", "", rollback_transaction(tx.transaction_id))

\* __exit__(exc_type, exc_val, exc_tb): called when the with-block is left,
\* on any path, and possibly again by hand
Exit ==
    /\ tx.close_calls < MaxExits
    /\ \E path \in ExitPaths :
         IF exit_closes(tx)
           THEN /\ Start("__exit__", path, close_transaction(tx.transaction_id))
                /\ tx' = [tx EXCEPT !.close_calls = @ + 1,
                                    !.scope = IF @ = "body" THEN "exited" ELSE @]
           ELSE /\ drv = "ready"
                /\ Idle
                /\ Local("__exit__", path, Returned(EmptyObject), NoResult)
                /\ UNCHANGED <<drv, token, tx>>

\* the accessors of the QueryResult the last query handed back
Accessor(op, out) ==
    /\ Idle
    /\ call.result.present
    /\ Local(op, "", out, call.result)
    /\ UNCHANGED <<drv, token, tx>>

AsConceptRows == Accessor("as_concept_rows", as_concept_rows(call.result))
AsConceptDocuments ==
    Accessor("as_concept_documents", as_concept_documents(call.result))

(***************************************************************************)
(* Specifications: the driver used directly (Spec), and the driver used    *)
(* through Transaction objects (SpecTx).                                   *)
(***************************************************************************)
Next ==
    \/ Construct
    \/ SignIn
    \/ Respond
    \/ GetDatabases
    \/ CreateDatabase
    \/ DeleteDatabase
    \/ OpenTransaction
    \/ CommitTransaction
    \/ CloseTransaction
    \/ RollbackTransaction
    \/ DriverQuery
    \/ OneShotQuery

Spec == Init /\ [][Next]_vars

NextTx ==
    \/ Construct
    \/ SignIn
    \/ Respond
    \/ NewTransaction
    \/ Enter
    \/ TransactionQuery
    \/ Commit
    \/ Rollback
    \/ Exit
    \/ AsConceptRows
    \/ AsConceptDocuments

SpecTx == Init /\ [][NextTx]_vars


(***************************************************************************)
(* Reading the record of a call.                                           *)
(***************************************************************************)
Finished == call.pc = "done"
\* the call went through _make_request
Transported == call.req /= NoRequest
LastOf(seq) == seq[Len(seq)]
\* the status that ended a send (None: a failed exchange)
StatusOf(send) == LastOf(send.trace)
\* the first send of the call was answered 401
FirstSend401 == Len(call.sends) >= 1 /\ StatusOf(call.sends[1]) = 401
\* the body _handle_response decodes: an empty body is an empty object
Payload(response) ==
    IF response.body.kind = "empty" THEN EmptyObject ELSE response.body

C2_Original ==
    Finished =>
      /\ call.op = "__init__" => Len(call.signins) <= 1
      /\ Transported => Len(call.signins) = (IF FirstSend401 THEN 1 ELSE 0)

(***************************************************************************)
(* C2, amended.  The construction makes exactly one sign-in exchange and   *)
(* sends no request.  A call makes one sign-in exchange before its first   *)
(* send exactly when it begins with no token cached, which happens only    *)
(* after a sign-in that failed, and one more exactly when its first send   *)
(* is answered 401; a 401 answered to the replay triggers none.            *)
(***************************************************************************)
C2_SignIns ==
    /\ Finished =>
         /\ call.op = "__init__" => Len(call.signins) = 1 /\ call.sends = << >>
         /\ Transported =>
              Len(call.signins) = (IF call.tokenBefore = None THEN 1 ELSE 0)
                                    + (IF FirstSend401 THEN 1 ELSE 0)
    /\ (Idle /\ drv = "ready" /\ token = None) =>
         /\ call.signins /= << >>
         /\ LastOf(call.signins).err /= NoError

\* a call that began with a cached token, was answered 401 twice and made
\* one sign-in exchange
C2_Witness ==
    /\ Finished
    /\ call.tokenBefore /= None
    /\ Len(call.sends) = 2
    /\ StatusOf(call.sends[2]) = 401
    /\ Len(call.signins) = 1

(***************************************************************************)
(* C3.  When a request sent with token T1 is answered 401, the sign-in     *)
(* returns T2 and the replay is answered with a success status, the replay *)
(* carries T2, T2 is the cached token afterwards, and the call returns the *)
(* payload of the replay's response, with no error.                        *)
(***************************************************************************)
C3_SilentRefresh ==
    (/\ Finished
     /\ Len(call.sends) = 2
     /\ StatusOf(call.sends[2]) /= None
     /\ StatusOf(call.sends[2]) < 400) =>
       /\ call.sends[1].bearer = call.tokenBefore \/ call.tokenBefore = None
       /\ call.sends[2].bearer = LastOf(call.signins).token
       /\ token = LastOf(call.signins).token
       /\ (/\ call.response.body.kind /= "malformed"
           /\ call.op = "open_transaction" => call.response.body.transactionId /= None)
            => call.out = Returned(Payload(call.response))

\* T1 = 1 is rejected, T2 = 2 is accepted and the payload comes back
C3_Witness ==
    /\ Finished
    /\ call.op = "query"
    /\ call.tokenBefore = 1
    /\ Len(call.sends) = 2
    /\ call.sends[1].bearer = 1
    /\ call.sends[2].bearer = 2
    /\ token = 2
    /\ call.out.ok
    /\ call.out.value.answerType = "conceptRows"

(***************************************************************************)
(* C4.  A sign-in exchange that fails (failed exchange or status >= 400),  *)
(* at construction, at the beginning of a call or after a 401, makes the   *)
(* call raise the error "Failed to authenticate" and leaves no token       *)
(* cached; and a call that begins with no token cached makes a sign-in     *)
(* exchange before anything else.                                          *)
(***************************************************************************)
SignInFailed(signin) == StatusOf(signin) = None \/ StatusOf(signin) >= 400

C4_SignInFailure ==
    /\ (Finished /\ call.signins /= << >> /\ SignInFailed(LastOf(call.signins))) =>
         /\ call.out = Raised(AuthenticateFailed)
         /\ token = None
         /\ call.op = "__init__" => drv = "absent"
    /\ (call.pc \in {"signin", "request", "done"} /\ call.tokenBefore = None
          /\ call.op \notin {"Transaction", "as_concept_rows", "as_concept_documents"}
          /\ (call.op \in {"Transaction.query", "Transaction.commit",
                           "Transaction.rollback", "__exit__"} => Transported)) =>
         \/ call.pc = "signin" /\ call.sends = << >>
         \/ call.signins /= << >> /\ call.sends = << >>
         \/ call.signins /= << >> /\ call.sends[1].bearer = call.signins[1].token

\* the refresh after a 401 fails
C4_Witness ==
    /\ Finished
    /\ FirstSend401
    /\ call.tokenBefore /= None
    /\ StatusOf(LastOf(call.signins)) = 503
    /\ token = None
    /\ call.out = Raised(AuthenticateFailed)

(***************************************************************************)
(* C5.  As claimed: a response whose status is in the forcelist is retried *)
(* within a budget of three attempts for every request: such a status ends *)
(* a send only as the third attempt, and the call then raises "HTTP        *)
(* request failed".                                                        *)
(***************************************************************************)
C5_Original ==
    Finished =>
      \A i \in 1..Len(call.sends) :
          /\ Len(call.sends[i].trace) <= total + 1
          /\ StatusOf(call.sends[i]) \in status_forcelist =>
               /\ Len(call.sends[i].trace) = total + 1
               /\ call.out = Raised(RequestFailed)

(***************************************************************************)
(* C6.  As claimed: __exit__ on a Transaction whose close already          *)
(* succeeded is a no-op: it sends nothing and never raises, whatever the   *)
(* server answers.                                                         *)
(***************************************************************************)
C6_Original ==
    (Finished /\ call.op = "__exit__" /\ call.pre.closed) =>
       /\ call.out.ok
       /\ call.sends = << >>

(***************************************************************************)
(* C7.  As claimed: once commit or rollback has succeeded on a Transaction, *)
(* every later query, commit or rollback on it raises the transaction      *)
(* state error and reaches no server.                                      *)
(***************************************************************************)
TransactionMethods == {"Transaction.query", "Transaction.commit", "Transaction.rollback"}

C7_Original ==
    (Finished /\ call.op \in TransactionMethods /\ call.pre.finished /= "no") =>
       call.out = Raised(NotOpen)

(***************************************************************************)
(* C8.  A Transaction opened by its with-block has no close_transaction    *)
(* call made for it while the block runs, and exactly one when the block   *)
(* is left, on every exit path and also after a commit or rollback.  That  *)
(* call asks to close the identifier __enter__ stored: every request an    *)
(* __exit__ sends is that close request, sent once, or twice when the      *)
(* first send is answered 401, or not at all when the driver holds no      *)
(* token and cannot sign in.  No other call on the Transaction sends a     *)
(* close request.                                                          *)
(***************************************************************************)
IsClose(send) == send.req.path.ep = "/v1/transactions/{id}/close"

C9_Original ==
    (Finished /\ call.op \in TransactionMethods) =>
       /\ (call.pre.transaction_id = None \/ call.pre.closed) =>
            call.out = Raised(NotOpen)
       /\ call.op = "Transaction.query" => tx = call.pre

(***************************************************************************)
(* C10.  as_concept_rows returns the answers of its QueryResult exactly    *)
(* when the response is tagged conceptRows, as_concept_documents exactly   *)
(* when it is tagged conceptDocuments; for every other tag, "ok" and no    *)
(* tag included, the accessor raises its "Cannot get ..." error and hands  *)
(* back no list.                                                           *)
(***************************************************************************)
AnswersOf(response) == IF response.hasAnswers THEN response.answers ELSE << >>

C10_Accessors ==
    /\ (Finished /\ call.op = "as_concept_rows") =>
         IF call.result.response.answerType = "conceptRows"
           THEN call.out = ReturnedList(AnswersOf(call.result.response))
           ELSE call.out = Raised(CannotGetRows)
    /\ (Finished /\ call.op = "as_concept_documents") =>
         IF call.result.response.answerType = "conceptDocuments"
           THEN call.out = ReturnedList(AnswersOf(call.result.response))
           ELSE call.out = Raised(CannotGetDocuments)

\* the rows accessor on a result tagged conceptDocuments
C10_Witness ==
    /\ Finished
    /\ call.op = "as_concept_rows"
    /\ call.result.response.answerType = "conceptDocuments"
    /\ call.result.answers = <<"a1">>
    /\ call.out = Raised(CannotGetRows)

(***************************************************************************)
(* C11.  As claimed: every response with a status >= 400 that ends a call, *)
(* the response to the request or the response to a sign-in, makes the     *)
(* call raise an error that carries that status and the code field of the  *)
(* response body.                                                          *)
(***************************************************************************)
CodeOf(response) ==
    IF Payload(response).code = "absent" THEN NoneStr ELSE Payload(response).code

C11_Original ==
    /\ (Finished /\ call.response /= NoResponse /\ call.response.status >= 400) =>
         /\ ~call.out.ok
         /\ call.out.err.status_code = call.response.status
         /\ call.out.err.code = CodeOf(call.response)
    /\ (/\ Finished
        /\ call.signins /= << >>
        /\ StatusOf(LastOf(call.signins)) /= None
        /\ StatusOf(LastOf(call.signins)) >= 400) =>
         /\ ~call.out.ok
         /\ call.out.err.status_code = StatusOf(LastOf(call.signins))

(***************************************************************************)
(* C12.  A response with a 4xx status other than 401 and 429 ends the call *)
(* at once: the exchange is not tried again, nothing is sent after it, the *)
(* cached token stays the one the request carried, no sign-in follows, and *)
(* the call raises the error of that response.                             *)
(***************************************************************************)
NonRetryable4xx == {s \in Statuses : s >= 400 /\ s < 500 /\ s \notin {401, 429}}

C12_SurfacedAtOnce ==
    /\ call.pc = "request" =>
         \A j \in 1..Len(call.trace) : call.trace[j] \notin NonRetryable4xx
    /\ \A i \in 1..Len(call.sends) :
         StatusOf(call.sends[i]) \in NonRetryable4xx =>
           /\ Finished
           /\ i = Len(call.sends)
           /\ \A j \in 1..(Len(call.sends[i].trace) - 1) :
                call.sends[i].trace[j] \notin NonRetryable4xx
           /\ token = call.sends[i].bearer
           /\ Len(call.signins) = (IF call.tokenBefore = None THEN 1 ELSE 0) + (i - 1)
           /\ ~call.out.ok
           /\ \/ call.out.err.status_code = StatusOf(call.sends[i])
              \/ call.out = Raised(InvalidJson)

\* get_databases answered 404 at its first exchange
C12_Witness ==
    /\ Finished
    /\ call.op = "get_databases"
    /\ call.tokenBefore /= None
    /\ Len(call.sends) = 1
    /\ call.sends[1].trace = <<404>>
    /\ call.signins = << >>
    /\ token = call.tokenBefore
    /\ call.out.err.status_code = 404

(***************************************************************************)
(* Concurrent callers sharing one driver (SpecThreads).  Each caller runs  *)
(* _make_request in a thread of its own; the threads share self.token, and *)
(* a thread may be suspended between any two accesses to it: _get_token    *)
(* tests self.token and then reads it again to return it, _refresh_token   *)
(* stores the new token and then reads self.token to return it.  Here      *)
(* `call` maps each thread to its call: where it stands (pc), whether its  *)
(* next send is the replay, the bearer of its request, and the tokens the  *)
(* sign-in exchanges it made have returned (issued).  Retried exchanges    *)
(* are left out: they touch no state of the driver.                        *)
(***************************************************************************)
NumThreads == 2
Threads == 1..NumThreads

ThreadCall(pc, replay, bearer, issued) ==
    [pc |-> pc, bearer |-> bearer, replay |-> replay, issued |-> issued]

\* the driver has been constructed by thread 1, its sign-in returning a token
InitThreads ==
    /\ drv = "ready"
    /\ token \in Tokens
    /\ tx = Transaction(db_name, "write", transaction_options_of_handler)
    /\ call = [t \in Threads |->
                 ThreadCall("idle", FALSE, None, IF t = 1 THEN {token} ELSE {})]

\* _make_request is entered: the headers are built with self._get_token()
ThreadStart(t) ==
    /\ call[t].pc = "idle"
    /\ call' = [call EXCEPT ![t].pc = "get_token", ![t].replay = FALSE,
                            ![t].bearer = None]
    /\ UNCHANGED <<drv, token, tx>>

\* _get_token: "if self.token:"
ThreadGetToken(t) ==
    /\ call[t].pc = "get_token"
    /\ call' = [call EXCEPT ![t].pc = IF HasToken(token) THEN "return_token"
                                      ELSE "signin"]
    /\ UNCHANGED <<drv, token, tx>>

\* _get_token: "return self.token", and the request is sent with it
ThreadReturnToken(t) ==
    /\ call[t].pc \in {"return_token", "return_fresh"}
    /\ call' = [call EXCEPT ![t].pc = "request", ![t].bearer = token]
    /\ UNCHANGED <<drv, token, tx>>

\* _refresh_token: session.post is answered; "self.token = data["token"]"
ThreadSignIn(t) ==
    /\ call[t].pc = "signin"
    /\ \E a \in ServerAnswers(SignInRequest) :
         LET r == refresh_token(token, urlopen(SignInRequest.method, total, a) = "raise", a)
         IN  /\ token' = r.token
             /\ call' = IF r.err = NoError
                          THEN [call EXCEPT ![t].pc = "return_fresh",
                                            ![t].issued = @ \cup {r.token}]
                          ELSE [call EXCEPT ![t].pc = "idle"]
    /\ UNCHANGED <<drv, tx>>

\* session.request is answered: a 401 to the first send clears self.token
\* and asks _get_token() again; any other answer ends the call
ThreadRespond(t) ==
    /\ call[t].pc = "request"
    /\ \E a \in ServerAnswers(get_databases) :
         IF a.net = "ok" /\ IsExpired(a, call[t].replay)
           THEN /\ token' = ExpiredToken(token)
                /\ call' = [call EXCEPT ![t].pc = "get_token", ![t].replay = TRUE]
           ELSE /\ call' = [call EXCEPT ![t].pc = "idle"]
                /\ UNCHANGED token
    /\ UNCHANGED <<drv, tx>>

NextThreads ==
    \E t \in Threads :
        \/ ThreadStart(t)
        \/ ThreadGetToken(t)
        \/ ThreadReturnToken(t)
        \/ ThreadSignIn(t)
        \/ ThreadRespond(t)

SpecThreads == InitThreads /\ [][NextThreads]_vars

\* the tokens sign-in exchanges have returned so far
Issued == UNION {call[t].issued : t \in Threads}

(***************************************************************************)
(* C13.  As claimed: under every interleaving the cached token is absent   *)
(* or a token returned by a sign-in exchange, and further refreshes are    *)
(* the only effect of the sharing: every request a thread sends still      *)
(* carries a token returned by a sign-in exchange.                         *)
(***************************************************************************)
C13_Original ==
    /\ token = None \/ token \in Issued
    /\ \A t \in Threads : call[t].pc = "request" => call[t].bearer \in Issued

\* the part of C13 that holds: the cached token is never corrupted
C13_TokenWhole == token = None \/ token \in Issued

(***************************************************************************)
(* C14.  As claimed: a 401 answered to a send of a call, the first send or *)
(* the replay, leaves the rejected token out of the cache (the cache is    *)
(* empty, or holds the token of a sign-in made after that 401), so that    *)
(* the next call signs in before it sends; and a call none of whose sends  *)
(* is answered 401 leaves the cached token as it was.                      *)
(***************************************************************************)
C14_Original ==
    (Finished /\ Transported) =>
      /\ FirstSend401 =>
           \/ token = None
           \/ Len(call.signins) >= 1 /\ token = LastOf(call.signins).token
      /\ (Len(call.sends) = 2 /\ StatusOf(call.sends[2]) = 401) => token = None
      /\ (~FirstSend401 /\ call.tokenBefore /= None) => token = call.tokenBefore

(***************************************************************************)
(* C15.  With calls made one after another, every request other than the  *)
(* sign-in is sent with the token cached at that moment as its bearer, and *)
(* that token was returned by a sign-in exchange that succeeded: the one   *)
(* cached when the call began, or the one the call's last sign-in          *)
(* returned.  No request is sent without a token, and none before the      *)
(* construction's sign-in succeeded.                                       *)
(***************************************************************************)
SignedIn(c) ==
    /\ c.signins /= << >>
    /\ LastOf(c.signins).err = NoError
    /\ LastOf(c.signins).token \in Tokens

C17_OpenFails ==
    /\ (Finished /\ call.op = "__enter__" /\ ~call.out.ok) =>
         /\ tx.scope = "failed"
         /\ tx.transaction_id = None
         /\ call.out.err /= NoError
         /\ \A i \in 1..Len(call.sends) :
              call.sends[i].req.path.ep = "/v1/transactions/open"
         /\ (call.response /= NoResponse /\ call.response.status >= 400
               /\ call.response.body.kind /= "malformed") =>
              call.out.err.status_code = call.response.status
    /\ tx.scope = "failed" =>
         /\ tx.transaction_id = None
         /\ tx.close_calls = 0
         /\ call.op \in TransactionMethods \cup {"__exit__"} =>
              /\ ~Transported
              /\ call.sends = << >>
         /\ (Finished /\ call.op \in TransactionMethods) => call.out = Raised(NotOpen)

\* the database does not exist: the open request is answered 404
C17_Witness ==
    /\ Finished
    /\ call.op = "__enter__"
    /\ Len(call.sends) = 1
    /\ StatusOf(call.sends[1]) = 404
    /\ call.out.err.status_code = 404
    /\ tx.scope = "failed"
    /\ tx.transaction_id = None

MessageOf(response) ==
    IF Payload(response).message = "absent"
      THEN HttpMessage(response.status) ELSE Payload(response).message

\* an empty success body is no error
C19_EmptySuccess ==
    (/\ Finished
     /\ call.response /= NoResponse
     /\ call.response.status < 400
     /\ call.response.body.kind = "empty") =>
       call.out = Returned(EmptyObject)

\* an error response is reported with its body's message and code
C19_ErrorReported ==
    (Finished /\ call.response /= NoResponse /\ call.response.status >= 400) =>
       /\ ~call.out.ok
       /\ call.out.err.message = MessageOf(call.response)
       /\ call.out.err.code = CodeOf(call.response)

C19_Original == C19_EmptySuccess /\ C19_ErrorReported

(***************************************************************************)
(* The payloads of open_transaction, query and one_shot_query for every    *)
(* options argument: no record, or a record with each field left None or   *)
(* set, a set field also holding a value Python takes for false.           *)
(***************************************************************************)
TimeoutValues == {NoneStr, "0", "20000"}
IncludeValues == {NoneStr, "False", "True"}
LimitValues == {NoneStr, "0", "1"}
AllTransactionOptions ==
    {NoTransactionOptions}
      \cup {TransactionOptions(a, b) : a \in TimeoutValues, b \in TimeoutValues}
AllQueryOptions ==
    {NoQueryOptions}
      \cup {QueryOptions(a, b) : a \in IncludeValues, b \in LimitValues}

\* the arguments at hand: tx holds the database, type and transaction
\* options, call the query options and the request built last
PayloadCall(op, options, req) == [req |-> req, query_options |-> options, op |-> op]

InitPayload ==
    /\ drv = "ready"
    /\ token \in Tokens
    /\ \E ty \in TransactionType, o \in AllTransactionOptions :
         tx = Transaction(db_name, ty, o)
    /\ \E o \in AllQueryOptions : call = PayloadCall("none", o, NoRequest)

\* open_transaction builds its request
BuildOpenTransaction ==
    /\ call' = PayloadCall("open_transaction", call.query_options,
                 open_transaction(tx.database_name, tx.transaction_type, tx.options))
    /\ UNCHANGED <<drv, token, tx>>

\* query builds its request
BuildQuery ==
    /\ \E id \in TxIds, q \in Queries :
         call' = PayloadCall("query", call.query_options,
                             query(id, q, call.query_options))
    /\ UNCHANGED <<drv, token, tx>>

\* one_shot_query builds its request
BuildOneShotQuery ==
    /\ \E q \in Queries, commit \in BOOLEAN :
         call' = PayloadCall("one_shot_query", call.query_options,
                   one_shot_query(q, commit, tx.database_name, tx.transaction_type,
                                  tx.options, call.query_options))
    /\ UNCHANGED <<drv, token, tx>>

NextPayload == BuildOpenTransaction \/ BuildQuery \/ BuildOneShotQuery

SpecPayload == InitPayload /\ [][NextPayload]_vars

\* the key of a payload holds the value of a set field and is left out for
\* an unset one
SentIfSet(wire, value) ==
    /\ value /= NoneStr => wire = value
    /\ value = NoneStr => wire = Omitted
    /\ wire /= NoneStr

(***************************************************************************)
(* C20.  The payload of open_transaction, query and one_shot_query holds   *)
(* an options object exactly when an options record was passed; in it      *)
(* exactly the set fields of the record appear, with their values, and no  *)
(* key is null.                                                            *)
(***************************************************************************)
C20_Payload ==
    LET d == call.req.data
        to == tx.options
        qo == call.query_options
        TransactionOptionsSent ==
          /\ d.transactionOptions.present <=> to.given
          /\ SentIfSet(d.transactionOptions.schemaLockAcquireTimeoutMillis,
                       to.schema_lock_acquire_timeout_millis)
          /\ SentIfSet(d.transactionOptions.transactionTimeoutMillis,
                       to.transaction_timeout_millis)
        QueryOptionsSent ==
          /\ d.queryOptions.present <=> qo.given
          /\ SentIfSet(d.queryOptions.includeInstanceTypes, qo.include_instance_types)
          /\ SentIfSet(d.queryOptions.answerCountLimit, qo.answer_count_limit)
    IN /\ call.op = "open_transaction" =>
            /\ DOMAIN d = {"databaseName", "transactionType", "transactionOptions"}
            /\ TransactionOptionsSent
       /\ call.op = "query" =>
            /\ DOMAIN d = {"query", "queryOptions"}
            /\ QueryOptionsSent
       /\ call.op = "one_shot_query" =>
            /\ DOMAIN d = {"query", "commit", "databaseName", "transactionType",
                           "transactionOptions", "queryOptions"}
            /\ TransactionOptionsSent
            /\ QueryOptionsSent

\* a one-shot query built from records with one field set to a value that
\* Python takes for false and the other field unset
C20_Witness ==
    /\ call.op = "one_shot_query"
    /\ tx.options = TransactionOptions(NoneStr, "0")
    /\ call.query_options = QueryOptions("False", NoneStr)
    /\ call.req.data.transactionOptions.transactionTimeoutMillis = "0"
    /\ call.req.data.transactionOptions.schemaLockAcquireTimeoutMillis = Omitted
    /\ call.req.data.queryOptions.includeInstanceTypes = "False"
    /\ call.req.data.queryOptions.answerCountLimit = Omitted

(***************************************************************************)
(* C24.  A call of one_shot_query sends its request to POST /v1/query      *)
(* only: once, or twice when the first send was answered 401 and replayed  *)
(* (not at all when the sign-in before that send failed).  Within a        *)
(* send only an exchange that could not connect is tried again, so the     *)
(* server receives each send at most once; no request goes to the          *)
(* transaction endpoints.                                                  *)
(***************************************************************************)
OneShotEndpoint(req) == req.method = "POST" /\ req.path = Path("/v1/query", None)
\* every exchange of the trace but the last failed to connect
ReceivedOnce(trace) == \A j \in 1..(Len(trace) - 1) : trace[j] = None

C24_OneShot ==
    (call.op = "one_shot_query") =>
      /\ Len(call.sends) <= 2
      /\ \A i \in 1..Len(call.sends) :
           /\ OneShotEndpoint(call.sends[i].req)
           /\ ReceivedOnce(call.sends[i].trace)
      /\ \A j \in 1..Len(call.trace) : call.trace[j] = None
      /\ Len(call.sends) = 2 => StatusOf(call.sends[1]) = 401
      /\ Finished =>
           \* no send, or no replay: the sign-in failed and its error is raised
           /\ Len(call.sends) = 0 =>
                /\ call.tokenBefore = None
                /\ Len(call.signins) = 1
                /\ call.out = Raised(call.signins[1].err)
           /\ (Len(call.sends) = 1 /\ FirstSend401) =>
                /\ call.signins /= << >>
                /\ call.out = Raised(LastOf(call.signins).err)

\* a one-shot query answered 401, replayed after a sign-in, and answered
C24_Witness ==
    /\ Finished
    /\ call.op = "one_shot_query"
    /\ Len(call.sends) = 2
    /\ call.sends[1].trace = <<401>>
    /\ call.sends[2].trace = <<200>>
    /\ call.sends[2].req.path.ep = "/v1/query"
    /\ call.out.ok

\* C24 as claimed: every finished call of one_shot_query has sent exactly
\* one request to POST /v1/query, or two when the first was answered 401
C24_Original ==
    (Finished /\ call.op = "one_shot_query") =>
      /\ Len(call.sends) \in {1, 2}
      /\ Len(call.sends) = 2 => StatusOf(call.sends[1]) = 401
      /\ \A i \in 1..Len(call.sends) : OneShotEndpoint(call.sends[i].req)

(***************************************************************************)
(* C25.  As claimed: whenever a driver operation (construction included)   *)
(* fails, the error raised to the caller is a TypeDBHttpError.             *)
(***************************************************************************)
C25_Original ==
    (Finished /\ ~call.out.ok) => call.out.err.type = "TypeDBHttpError"

(***************************************************************************)
(* C26.  A call ends after a bounded number of HTTP exchanges whatever     *)
(* the server answers: at most two sends of the request and at most two    *)
(* sign-ins (one before the first send when no token is cached, one after  *)
(* a 401), each of at most total + 1 exchanges.  Every step of a call in   *)
(* progress is one exchange, so the bound on the exchanges bounds the      *)
(* call.                                                                   *)
(***************************************************************************)
RECURSIVE ExchangesIn(_)
\* the exchanges of a sequence of sends or sign-ins
ExchangesIn(seq) ==
    IF seq = << >> THEN 0 ELSE Len(seq[1].trace) + ExchangesIn(Tail(seq))
Exchanges(c) == ExchangesIn(c.signins) + ExchangesIn(c.sends) + Len(c.trace)

C26_Bounded ==
    (call.pc \in {"signin", "request", "done"}) =>
      /\ Len(call.sends) <= 2
      /\ Len(call.signins) <= 2
      /\ Len(call.signins) <= (IF call.tokenBefore = None THEN 1 ELSE 0)
                                + (IF FirstSend401 THEN 1 ELSE 0)
      /\ \A i \in 1..Len(call.sends) : Len(call.sends[i].trace) \in 1..(total + 1)
      /\ \A i \in 1..Len(call.signins) : Len(call.signins[i].trace) \in 1..(total + 1)
      /\ call.retries \in 0..total
      /\ Len(call.trace) = total - call.retries
      /\ Exchanges(call) <= 4 * (total + 1)
      \* a call in progress has an exchange left to make; a finished one none
      /\ call.pc = "done" => call.trace = << >>

\* C26 as claimed: a transport call makes at most one sign-in exchange
C26_Original ==
    (call.pc \in {"signin", "request", "done"} /\ Transported) =>
      /\ Len(call.sends) <= 2
      /\ Len(call.signins) <= 1

\* a call that signed in twice and sent twice, and one send of which used
\* the whole retry budget
C26_Witness ==
    /\ Finished
    /\ Len(call.signins) = 2
    /\ Len(call.sends) = 2
    /\ call.sends[1].trace = <<401>>
    /\ Len(call.sends[2].trace) = total + 1

(***************************************************************************)
(* C27.  A call none of whose exchanges is answered 401 leaves the cached  *)
(* token as it found it (a call that found none caches the token of its    *)
(* one sign-in, or none when the sign-in failed), and the driver itself is *)
(* left as it was: the transaction operations record nothing in it.        *)
(***************************************************************************)
No401(trace) == \A j \in 1..Len(trace) : trace[j] /= 401
Never401(c) ==
    /\ \A i \in 1..Len(c.sends) : No401(c.sends[i].trace)
    /\ No401(c.trace)

C27_TokenKept ==
    (call.pc \in {"request", "done"} /\ Transported /\ Never401(call)) =>
      /\ drv = "ready"
      /\ call.tokenBefore /= None =>
           /\ token = call.tokenBefore
           /\ call.signins = << >>
      /\ call.tokenBefore = None =>
           /\ Len(call.signins) = 1
           /\ token = call.signins[1].token

\* a query in a transaction answered 404, and a commit that could not be
\* sent, with the token that was cached before
C27_Witness ==
    /\ Finished
    /\ call.op \in {"query", "commit_transaction"}
    /\ call.tokenBefore /= None
    /\ Len(call.sends) = 1
    /\ StatusOf(call.sends[1]) \in {404, None}
    /\ token = call.tokenBefore

(***************************************************************************)
(* C28.  As claimed: when a with-block is left by a failure, __exit__      *)
(* sends the close request and returns normally whatever the server        *)
(* answers to it, so that the failure raised in the block is the one the   *)
(* caller sees.  (An error raised by __exit__ takes the place of the       *)
(* failure that was propagating.)                                          *)
(***************************************************************************)
C28_Original ==
    (/\ Finished
     /\ call.op = "__exit__"
     /\ call.arg = "raise"
     /\ call.pre.scope = "body") =>
       /\ call.sends /= << >>
       /\ call.out.ok

(***************************************************************************)
(* handler.py: the process-wide driver.  In SpecDriverReuse drv holds the  *)
(* module's globals _global_driver and _driver_created_at, and call holds  *)
(* the clock (time.time(), in seconds), the last call of _driver() or      *)
(* _cleanup_driver() with the globals it found, and what is observed of    *)
(* the drivers: how many were created (a driver is named by its number)    *)
(* and whether the cached one still has its connection.                    *)
(***************************************************************************)
MaxTime == 1000
MaxDrivers == 3
driver_timeout == 300
\* the seconds that pass between two calls: two of them make an age of
\* 300, 301 or 302 seconds
TimeSteps == {150, 151}

Globals(driver, created_at) ==
    [global_driver |-> driver, driver_created_at |-> created_at]
NoDriver == Globals(None, None)

DriverCall(op, now, pre, out, raised, made, alive) ==
    [out |-> out, op |-> op, pre |-> pre, now |-> now, raised |-> raised,
     made |-> made, alive |-> alive]

InitDriverReuse ==
    /\ drv = NoDriver
    /\ token = None
    /\ tx = Transaction(db_name, "write", transaction_options_of_handler)
    /\ call = DriverCall("none", 1, NoDriver, None, FALSE, 0, FALSE)

\* an expiry test that counts the 300th second as expired
expired_at_timeout(globals, current_time) ==
    /\ globals.driver_created_at /= None
    /\ (current_time - globals.driver_created_at) >= driver_timeout
\* "expired = _driver_created_at is not None and
\*            (current_time - _driver_created_at) > _driver_timeout"
expired(globals, current_time) ==
    /\ globals.driver_created_at /= None
    /\ (current_time - globals.driver_created_at) > driver_timeout

\* a cleanup that drops the driver and keeps its creation time
cleanup_driver_keeps_time(globals) ==
    IF globals.global_driver /= None
      THEN Globals(None, globals.driver_created_at) ELSE globals
\* _cleanup_driver(): the globals it leaves
cleanup_driver(globals) ==
    IF globals.global_driver /= None THEN NoDriver ELSE globals

\* time passes; the caller has used what the last call returned
Tick ==
    /\ \E d \in TimeSteps :
         /\ call.now + d <= MaxTime
         /\ call' = DriverCall("none", call.now + d, drv, None, FALSE, call.made,
                               call.alive)
    /\ UNCHANGED <<drv, token, tx>>

\* the connection of the cached driver is lost
Disconnect ==
    /\ drv.global_driver /= None
    /\ call.alive
    /\ call' = DriverCall("none", call.now, drv, None, FALSE, call.made, FALSE)
    /\ UNCHANGED <<drv, token, tx>>

\* _driver(): the cached driver when there is one and it is not expired;
\* otherwise TypeDB.driver(...) creates one, or fails
GetDriver ==
    /\ call.op = "none"
    /\ LET current_time == call.now
       IN  IF drv.global_driver /= None /\ ~expired(drv, current_time)
             THEN /\ call' = DriverCall("_driver", call.now, drv, drv.global_driver,
                                        FALSE, call.made, call.alive)
                  /\ UNCHANGED drv
             ELSE /\ call.made < MaxDrivers
                  /\ \E created \in BOOLEAN :
                       IF created
                         THEN /\ drv' = Globals(call.made + 1, current_time)
                              /\ call' = DriverCall("_driver", call.now, drv,
                                                    call.made + 1, FALSE,
                                                    call.made + 1, TRUE)
                         ELSE /\ drv' = NoDriver
                              /\ call' = DriverCall("_driver", call.now, drv, None,
                                                    TRUE, call.made, FALSE)
    /\ UNCHANGED <<token, tx>>

\* _cleanup_driver() called on its own
CleanupDriver ==
    /\ call.op = "none"
    /\ drv' = cleanup_driver(drv)
    /\ call' = DriverCall("_cleanup_driver", call.now, drv, None, FALSE, call.made,
                          FALSE)
    /\ UNCHANGED <<token, tx>>

NextDriverReuse == Tick \/ Disconnect \/ GetDriver \/ CleanupDriver

SpecDriverReuse == InitDriverReuse /\ [][NextDriverReuse]_vars

\* the age of the cached driver at the call
AgeAtCall(c) == c.now - c.pre.driver_created_at

(***************************************************************************)
(* C29.  _driver() returns the cached driver, whether or not it still has  *)
(* its connection, and leaves the globals alone when the call is made no   *)
(* more than 300 seconds after the driver was created; a call made later   *)
(* drops it and caches a newly created driver with the time of the call    *)
(* as its creation time (or caches nothing and raises, when the creation   *)
(* fails).                                                                 *)
(***************************************************************************)
C29_ReuseByAge ==
    (call.op = "_driver" /\ call.pre.global_driver /= None) =>
      /\ AgeAtCall(call) <= driver_timeout =>
           /\ ~call.raised
           /\ call.out = call.pre.global_driver
           /\ drv = call.pre
      /\ AgeAtCall(call) > driver_timeout =>
           IF call.raised
             THEN drv = NoDriver
             ELSE /\ call.out > call.pre.global_driver
                  /\ drv = Globals(call.out, call.now)

\* a driver that lost its connection is handed out again in its 300th
\* second
C29_Witness ==
    /\ call.op = "_driver"
    /\ call.pre.global_driver /= None
    /\ AgeAtCall(call) = driver_timeout
    /\ ~call.alive
    /\ call.out = call.pre.global_driver

\* a driver older than 300 seconds is replaced
C29_WitnessExpired ==
    /\ call.op = "_driver"
    /\ call.pre.global_driver = 1
    /\ AgeAtCall(call) = driver_timeout + 1
    /\ call.out = 2
    /\ drv.driver_created_at = call.now

(***************************************************************************)
(* handler.py: the API of users, groups and memberships.  The handler runs *)
(* its queries in a TypeDB database whose schema (schema.tql) and server   *)
(* are not part of the sources; the database is modelled from what the     *)
(* handler's queries and the tests expect of it: user-name and group-name  *)
(* are keys, an insert adds one instance, "put" adds a membership unless   *)
(* it is there, writes become visible at commit and are dropped when the   *)
(* transaction is closed without it.                                       *)
(***************************************************************************)
Usernames == {"alice", "bob"}
GroupNames == {"devs", "ops"}

\* a database: absent, created, or created with its schema; its instances
\* are a bag of users, a bag of group names and a set of memberships
Database(state, users, groups, memberships) ==
    [state |-> state, users |-> users, groups |-> groups, memberships |-> memberships]
NoDatabase == Database("absent", EmptyBag, EmptyBag, {})

\* a user instance with its attributes; a membership of member in container
User(name, emails, url, s3_uri) ==
    [username |-> name, email |-> emails, profile_picture_url |-> url,
     profile_picture_s3_uri |-> s3_uri]
Member(type, name) == [member_type |-> type, member_name |-> name]
Membership(container, member) == [container |-> container, member |-> member]

\* the user-names or the group-names of the instances
Names(instances, kind) ==
    {IF kind = "user" THEN i.username ELSE i : i \in BagToSet(instances)}

\* errors: the server's key constraint violation (its text holds "DVL9" and
\* "key constraint violation"), any other failure of the server, and the
\* handler's ValueError with its text
ServerError(code) == [type |-> "TypeDBDriverException", name |-> "", text |-> code]
KeyViolation == ServerError("DVL9 key constraint violation")
Unavailable == ServerError("unavailable")
ValueError(text, name) == [type |-> "ValueError", name |-> name, text |-> text]
NoException == [type |-> "none", name |-> "", text |-> ""]

\* the queries the handler builds
InsertUser(user) == [kind |-> "insert_user", user |-> user]
InsertGroup(name) == [kind |-> "insert_group", group_name |-> name]
PutMembership(member, container) ==
    [kind |-> "put_membership", container |-> container, member |-> member]

\* what a write query makes of the database in its transaction: the new
\* contents, or an error of the query
MemberExists(db, member) ==
    IF member.member_type = "user"
      THEN member.member_name \in Names(db.users, "user")
      ELSE member.member_name \in Names(db.groups, "group")

Written(db, q) ==
    CASE q.kind = "insert_user" ->
           IF q.user.username \in Names(db.users, "user")
             THEN [error |-> KeyViolation, db |-> db]
             ELSE [error |-> NoException,
                   db |-> [db EXCEPT !.users = @ (+) SetToBag({q.user})]]
      [] q.kind = "insert_group" ->
           IF q.group_name \in Names(db.groups, "group")
             THEN [error |-> KeyViolation, db |-> db]
             ELSE [error |-> NoException,
                   db |-> [db EXCEPT !.groups = @ (+) SetToBag({q.group_name})]]
      [] q.kind = "put_membership" ->
           \* "match" finds nothing unless the member and the group exist
           IF MemberExists(db, q.member) /\ q.container \in Names(db.groups, "group")
             THEN [error |-> NoException,
                   db |-> [db EXCEPT !.memberships =
                                       @ \cup {Membership(q.container, q.member)}]]
             ELSE [error |-> NoException, db |-> db]

(***************************************************************************)
(* handler.py: transactions.  What the server does to a step is chosen by  *)
(* the environment: nothing goes wrong ("none"), or the step named by the  *)
(* fault fails; a key violation is reported to the query or to the commit. *)
(***************************************************************************)
Faults == {"none", "setup", "reset", "open", "query", "commit"}
KeyChecks == {"query", "commit"}

\* what is observed of a with-block: the requests made in it; queried is
\* "no" when no query was sent, else "ok" or "failed"
TransactionLog(type, opened, queried, commit_issued, closed) ==
    [type |-> type, closed |-> closed, opened |-> opened, queried |-> queried,
     commit_issued |-> commit_issued]
NoTransaction == TransactionLog("none", FALSE, "no", FALSE, FALSE)

\* a block that commits whether or not its query raised
commits_always(query_error) == TRUE
\* "tx.query(query).resolve(); tx.commit()": the commit is reached when the
\* query did not raise
commits(query_error) == query_error = NoException

\* "with _driver().transaction(db_name, TransactionType.WRITE, ...) as tx:
\*      tx.query(query).resolve(); tx.commit()"
\* the database, the exception that leaves the block and the requests made
write_transaction(db, q, fault, keycheck) ==
    LET w == Written(db, q)
        query_error ==
          IF fault = "query" THEN Unavailable
          ELSE IF keycheck = "query" THEN w.error ELSE NoException
        commit_error ==
          IF fault = "commit" THEN Unavailable
          ELSE IF query_error = NoException THEN w.error ELSE NoException
    IN  IF fault = "open"
          THEN [db |-> db, error |-> Unavailable,
                tx |-> TransactionLog("write", FALSE, "no", FALSE, FALSE)]
        ELSE IF ~commits(query_error)
          THEN [db |-> db, error |-> query_error,
                tx |-> TransactionLog("write", TRUE, "failed", FALSE, TRUE)]
        ELSE IF query_error /= NoException
          \* a commit after a failed query has nothing to make visible
          THEN [db |-> db, error |-> query_error,
                tx |-> TransactionLog("write", TRUE, "failed", TRUE, TRUE)]
        ELSE IF commit_error /= NoException
          THEN [db |-> db, error |-> commit_error,
                tx |-> TransactionLog("write", TRUE, "ok", TRUE, TRUE)]
        ELSE [db |-> w.db, error |-> NoException,
              tx |-> TransactionLog("write", TRUE, "ok", TRUE, TRUE)]

\* "with _driver().transaction(db_name, TransactionType.READ, ...) as tx:
\*      result = list(tx.query(...).resolve().as_concept_documents())"
read_transaction(db, documents, fault) ==
    IF fault = "open"
      THEN [db |-> db, error |-> Unavailable, value |-> EmptyBag,
            tx |-> TransactionLog("read", FALSE, "no", FALSE, FALSE)]
    ELSE IF fault = "query"
      THEN [db |-> db, error |-> Unavailable, value |-> EmptyBag,
            tx |-> TransactionLog("read", TRUE, "failed", FALSE, TRUE)]
    ELSE [db |-> db, error |-> NoException, value |-> documents,
          tx |-> TransactionLog("read", TRUE, "ok", FALSE, TRUE)]

(***************************************************************************)
(* handler.py: the operations                                              *)
(***************************************************************************)
\* payload values: an "email" that is a string or a list, or left out
Str(s) == [kind |-> "str", items |-> <<s>>]
List(items) == [kind |-> "list", items |-> items]
NoEmail == [kind |-> "omitted", items |-> << >>]
\* "not payload["email"]"
Empty(email) ==
    \/ email.kind = "list" /\ email.items = << >>
    \/ email.kind = "str" /\ email.items = <<"">>
UserPayload(username, email, uri) ==
    [username |-> username, email |-> email, profile_picture_uri |-> uri]
GroupPayload(group_name) == [group_name |-> group_name]
MemberPayload(username, group_name) == [username |-> username, group_name |-> group_name]

HttpUri == "https://example.com/alice.jpg"
S3Uri == "pictures/alice.jpg"
\* profile_picture_uri.startswith("http")
startswith_http(uri) == uri = HttpUri

RECURSIVE ItemsOf(_)
ItemsOf(seq) == IF seq = << >> THEN {} ELSE {seq[1]} \cup ItemsOf(Tail(seq))

\* what an operation of the handler hands back: the database, the value
\* returned or the exception raised, and the requests of its transaction
Outcome(db, value, error, log) == [value |-> value, db |-> db, tx |-> log, error |-> error]

\* an except clause that lets the server's error through
translated_never(error, text, name) == error
\* "if "DVL9" in error_msg and "key constraint violation" in error_msg:
\*      raise ValueError(f"User '{username}' already exists")  else: raise e"
translated(error, text, name) ==
    IF error.type /= "none" /\ error.text = KeyViolation.text
      THEN ValueError(text, name)
      ELSE error

\* a query that keeps the first email only
insert_user_first_email(username, emails, profile_picture_uri) ==
    InsertUser(User(username, {emails[1]},
                    IF profile_picture_uri /= "" /\ startswith_http(profile_picture_uri)
                      THEN profile_picture_uri ELSE NoneStr,
                    IF profile_picture_uri /= "" /\ ~startswith_http(profile_picture_uri)
                      THEN profile_picture_uri ELSE NoneStr))
\* the insert query of create_user: the user-name, every email, and the
\* picture as profile-picture-url or as profile-picture-s3-uri
insert_user(username, emails, profile_picture_uri) ==
    InsertUser(User(username, ItemsOf(emails),
                    IF profile_picture_uri /= "" /\ startswith_http(profile_picture_uri)
                      THEN profile_picture_uri ELSE NoneStr,
                    IF profile_picture_uri /= "" /\ ~startswith_http(profile_picture_uri)
                      THEN profile_picture_uri ELSE NoneStr))

create_user(db, payload, fault, keycheck) ==
    IF payload.username = Omitted
      THEN Outcome(db, << >>, ValueError("Username is required", ""), NoTransaction)
    ELSE IF payload.email.kind = "omitted" \/ Empty(payload.email)
      THEN Outcome(db, << >>, ValueError("At least one email is required", ""),
                   NoTransaction)
    ELSE LET emails == payload.email.items
             uri == IF payload.profile_picture_uri = Omitted
                      THEN "" ELSE payload.profile_picture_uri
             r == write_transaction(db, insert_user(payload.username, emails, uri),
                                    fault, keycheck)
         IN  IF r.error = NoException
               THEN Outcome(r.db,
                            [message |-> "User created successfully",
                             username |-> payload.username, email |-> emails],
                            NoException, r.tx)
               ELSE Outcome(r.db, << >>,
                            translated(r.error, "User '{username}' already exists",
                                       payload.username),
                            r.tx)

create_group(db, payload, fault, keycheck) ==
    IF payload.group_name = Omitted
      THEN Outcome(db, << >>, ValueError("Group name is required", ""), NoTransaction)
    ELSE LET r == write_transaction(db, InsertGroup(payload.group_name), fault,
                                    keycheck)
         IN  IF r.error = NoException
               THEN Outcome(r.db,
                            [message |-> "Group created successfully",
                             group_name |-> payload.group_name],
                            NoException, r.tx)
               ELSE Outcome(r.db, << >>,
                            translated(r.error, "Group '{group_name}' already exists",
                                       payload.group_name),
                            r.tx)

\* the documents of list_users and list_groups, one for each instance
\* (a bag: the answers come in no given order)
list_users(db, fault) ==
    LET r == read_transaction(db, db.users, fault)
    IN  Outcome(r.db, r.value, r.error, r.tx)

GroupDocument(name) == [group_name |-> name]
list_groups(db, fault) ==
    LET docs == [d \in {GroupDocument(g) : g \in BagToSet(db.groups)} |->
                   CopiesIn(d.group_name, db.groups)]
        r == read_transaction(db, docs, fault)
    IN  Outcome(r.db, r.value, r.error, r.tx)

\* the query of add_member_to_group: the member is a user or a group
add_member_to_group(db, group_name, payload, fault, keycheck) ==
    IF payload.username = Omitted /\ payload.group_name = Omitted
      THEN Outcome(db, << >>,
                   ValueError("Either 'username' or 'group_name' is required", ""),
                   NoTransaction)
    ELSE IF payload.username /= Omitted /\ payload.group_name /= Omitted
      THEN Outcome(db, << >>,
                   ValueError("Provide either 'username' or 'group_name', not both", ""),
                   NoTransaction)
    ELSE LET member == IF payload.username /= Omitted
                         THEN Member("user", payload.username)
                         ELSE Member("group", payload.group_name)
             r == write_transaction(db, PutMembership(member, group_name), fault,
                                    keycheck)
         IN  IF r.error = NoException
               THEN Outcome(r.db,
                            [message |-> "added to group successfully",
                             group_name |-> group_name,
                             member_type |-> member.member_type,
                             member_name |-> member.member_name],
                            NoException, r.tx)
               ELSE Outcome(r.db, << >>, r.error, r.tx)

\* the members that memberships give the group directly
DirectMembers(db, group_name) ==
    {m.member : m \in {x \in db.memberships : x.container = group_name}}

RECURSIVE MembersWithin(_, _, _)
\* the members reached from the group through at most depth memberships
MembersWithin(db, group_name, depth) ==
    IF depth = 0 THEN {}
    ELSE LET direct == DirectMembers(db, group_name)
         IN  direct \cup UNION {MembersWithin(db, m.member_name, depth - 1) :
                                  m \in {x \in direct : x.member_type = "group"}}

MemberDocuments(members, group_name) ==
    SetToBag({[member_name |-> m.member_name, group_name |-> group_name,
               member_type |-> m.member_type] : m \in members})

\* list_all_group_members: the members the schema's group-members function
\* finds, through groups that are members
list_all_group_members(db, group_name, fault) ==
    LET r == read_transaction(db,
               MemberDocuments(MembersWithin(db, group_name, Cardinality(GroupNames) + 1),
                               group_name),
               fault)
    IN  Outcome(r.db, r.value, r.error, r.tx)

\* a listing of the transitive members in place of the direct ones
list_direct_group_members_transitive(db, group_name, fault) ==
    list_all_group_members(db, group_name, fault)
\* list_direct_group_members: the members of the group's own memberships
list_direct_group_members(db, group_name, fault) ==
    LET r == read_transaction(db,
               MemberDocuments(DirectMembers(db, group_name), group_name), fault)
    IN  Outcome(r.db, r.value, r.error, r.tx)

\* a setup that loads the schema into the databases it created itself only
create_database_and_schema_if_missing(db, fault) ==
    IF fault = "setup"
      THEN [db |-> IF db.state = "absent"
                     THEN Database("created", EmptyBag, EmptyBag, {}) ELSE db,
            error |-> Unavailable]
      ELSE [db |-> IF db.state = "absent"
                     THEN Database("schema", EmptyBag, EmptyBag, {}) ELSE db,
            error |-> NoException]
\* _create_database_and_schema(): the database is created when it is
\* missing and the schema loaded when the database has no entity type
create_database_and_schema(db, fault) ==
    LET created == IF db.state = "absent"
                     THEN Database("created", EmptyBag, EmptyBag, {}) ELSE db
    IN  IF fault = "setup"
          THEN [db |-> created, error |-> Unavailable]
          ELSE [db |-> IF created.state = "created"
                         THEN [created EXCEPT !.state = "schema"] ELSE created,
                error |-> NoException]

\* reset_database(): the database is deleted when it exists and created
\* again with its schema
reset_database(db, fault) ==
    LET r == create_database_and_schema(NoDatabase,
                                        IF fault = "reset" THEN "setup" ELSE "none")
    IN  Outcome(r.db, [message |-> "Database reset successfully"], r.error,
                NoTransaction)

\* an event of the API gateway and the response handed back to it
Event(httpMethod, route, name, body) ==
    [path |-> [name |-> name, route |-> route], body |-> body,
     httpMethod |-> httpMethod]
NoBody == [none |-> TRUE]

\* _cors_response(status_code, body)
cors_response(status_code, body) == [body |-> body, statusCode |-> status_code]
\* the handler raised: the invocation fails
Unhandled(error) == [body |-> [error |-> error], statusCode |-> None]

\* handle_request(event, method, path): the route's operation
handle_request(db, event, fault, keycheck) ==
    LET method == event.httpMethod
        route == event.path.route
    IN  CASE route = "/users" /\ method = "GET" ->
               [status |-> 200, out |-> list_users(db, fault)]
          [] route = "/users" /\ method = "POST" ->
               [status |-> 201, out |-> create_user(db, event.body, fault, keycheck)]
          [] route = "/groups" /\ method = "GET" ->
               [status |-> 200, out |-> list_groups(db, fault)]
          [] route = "/groups" /\ method = "POST" ->
               [status |-> 201, out |-> create_group(db, event.body, fault, keycheck)]
          [] route = "/groups/{group_name}/members" /\ method = "GET" ->
               [status |-> 200,
                out |-> list_direct_group_members(db, event.path.name, fault)]
          [] route = "/groups/{group_name}/members" /\ method = "POST" ->
               [status |-> 201,
                out |-> add_member_to_group(db, event.path.name, event.body, fault,
                                            keycheck)]
          [] route = "/groups/{group_name}/all-members" /\ method = "GET" ->
               [status |-> 200,
                out |-> list_all_group_members(db, event.path.name, fault)]
          [] route = "/reset" /\ method = "POST" ->
               [status |-> 200, out |-> reset_database(db, fault)]
          [] OTHER ->
               [status |-> 404,
                out |-> Outcome(db, [error |-> "Not found"], NoException,
                                NoTransaction)]

\* handler(event, context): the database it leaves, its response, the
\* requests of the operation's transaction, and the state of the database
\* as handle_request is called ("no" when it is not called)
handler(db, event, fault, keycheck) ==
    LET setup == create_database_and_schema(db, fault)
    IN  IF setup.error /= NoException
          THEN [db |-> setup.db, response |-> Unhandled(setup.error),
                tx |-> NoTransaction, routed |-> "no"]
        ELSE IF event.httpMethod = "OPTIONS"
          THEN [db |-> setup.db, response |-> cors_response(200, [text |-> ""]),
                tx |-> NoTransaction, routed |-> "no"]
        ELSE LET r == handle_request(setup.db, event, fault, keycheck)
             IN  IF r.out.error /= NoException
                   THEN [db |-> r.out.db,
                         response |-> cors_response(400, [error |-> r.out.error]),
                         tx |-> r.out.tx, routed |-> setup.db.state]
                   ELSE [db |-> r.out.db,
                         response |-> cors_response(r.status, r.out.value),
                         tx |-> r.out.tx, routed |-> setup.db.state]

(***************************************************************************)
(* SpecHandler: invocations of handler(event, context), one after the      *)
(* other.  drv holds the database the handler's driver reaches, tx the     *)
(* requests of the last operation's transaction, and call the last event   *)
(* with its response, the database it found, and what was created with a   *)
(* 201 response since the last reset that returned 200.  (The routes that  *)
(* list the groups of a user or of a group are left out.)                  *)
(***************************************************************************)
\* the payloads callers post
UserPayloads ==
    {UserPayload("alice", Str("a@example.com"), Omitted),
     UserPayload("alice", List(<<"a@example.com", "b@example.com">>), HttpUri),
     UserPayload("bob", List(<<"b@example.com">>), S3Uri),
     UserPayload(Omitted, Str("a@example.com"), Omitted),
     UserPayload("bob", List(<< >>), Omitted)}
GroupPayloads == {GroupPayload(g) : g \in GroupNames \cup {Omitted}}
\* "alice" and the group "ops" are added to the group "devs", "bob" to the
\* group "ops"
MemberPayloads(group_name) ==
    IF group_name = "devs"
      THEN {MemberPayload("alice", Omitted), MemberPayload(Omitted, "ops"),
            MemberPayload("alice", "ops")}
      ELSE {MemberPayload("bob", Omitted), MemberPayload(Omitted, Omitted)}

\* what was created since the reset: the payloads and names that got 201
Created(valid, users, groups, members) ==
    [users |-> users, groups |-> groups, members |-> members, valid |-> valid]
NothingCreated(valid) == Created(valid, {}, {}, {})

\* an invocation: its event and response, the database before it, what was
\* created so far, and the state of the database as the request was routed
Invocation(event, response, pre, created, routed) ==
    [response |-> response, pre |-> pre, created |-> created, event |-> event,
     routed |-> routed]
NoEvent == Event("none", "none", "", NoBody)

InitHandler ==
    /\ drv = NoDatabase
    /\ token = None
    /\ tx = NoTransaction
    /\ call = Invocation(NoEvent, cors_response(None, NoBody), NoDatabase,
                         NothingCreated(FALSE), "no")

\* the record of what was created, after the event got the response
Recorded(created, event, response) ==
    LET route == event.path.route
        posted == event.httpMethod = "POST" /\ response.statusCode = 201
    IN  IF route = "/reset"
          THEN NothingCreated(response.statusCode = 200)
        ELSE IF posted /\ route = "/users"
          THEN [created EXCEPT !.users = @ \cup {event.body}]
        ELSE IF posted /\ route = "/groups"
          THEN [created EXCEPT !.groups = @ \cup {event.body.group_name}]
        ELSE IF /\ posted
                /\ route = "/groups/{group_name}/members"
                /\ event.path.name \in created.groups
                /\ response.body.member_name \in
                     (IF response.body.member_type = "user"
                        THEN {p.username : p \in created.users} ELSE created.groups)
          THEN [created EXCEPT !.members =
                  @ \cup {Membership(event.path.name,
                                     Member(response.body.member_type,
                                            response.body.member_name))}]
        ELSE created

\* one invocation of the handler
Invoke(event, faults, keychecks) ==
    /\ \E fault \in faults, keycheck \in keychecks :
         \E r \in {handler(drv, event, fault, keycheck)} :
             /\ drv' = r.db
             /\ tx' = r.tx
             /\ call' = Invocation(event, r.response, drv,
                                   Recorded(call.created, event, r.response),
                                   r.routed)
    /\ UNCHANGED token

ReadFaults == {"none", "query"}
WriteFaults == {"none", "query", "commit"}

PostUsers ==
    \E payload \in UserPayloads :
      Invoke(Event("POST", "/users", "", payload), WriteFaults, KeyChecks)
GetUsers ==
    Invoke(Event("GET", "/users", "", NoBody), ReadFaults \cup {"open"}, {"query"})
PostGroups ==
    \E payload \in GroupPayloads :
      Invoke(Event("POST", "/groups", "", payload), WriteFaults, KeyChecks)
GetGroups == Invoke(Event("GET", "/groups", "", NoBody), ReadFaults, {"query"})
PostMembers ==
    \E g \in GroupNames : \E payload \in MemberPayloads(g) :
      Invoke(Event("POST", "/groups/{group_name}/members", g, payload),
             WriteFaults \cup {"open"}, {"query"})
GetMembers ==
    \E g \in GroupNames :
      Invoke(Event("GET", "/groups/{group_name}/members", g, NoBody), ReadFaults,
             {"query"})
GetAllMembers ==
    \E g \in GroupNames :
      Invoke(Event("GET", "/groups/{group_name}/all-members", g, NoBody), ReadFaults,
             {"query"})
PostReset ==
    Invoke(Event("POST", "/reset", "", NoBody), {"none", "setup", "reset"}, {"query"})
Options ==
    Invoke(Event("OPTIONS", "/users", "", NoBody), {"none", "setup"}, {"query"})
NotFound ==
    Invoke(Event("DELETE", "/users", "", NoBody), {"none", "setup"}, {"query"})

NextHandler ==
    \/ PostUsers
    \/ GetUsers
    \/ PostGroups
    \/ GetGroups
    \/ PostMembers
    \/ GetMembers
    \/ GetAllMembers
    \/ PostReset
    \/ Options
    \/ NotFound

SpecHandler == InitHandler /\ [][NextHandler]_vars

\* readings of the last invocation
Posted(route) ==
    /\ call.event.httpMethod = "POST"
    /\ call.event.path.route = route
    /\ call.response.statusCode /= None
\* the payload passes the checks of create_user / create_group
ValidUser(payload) ==
    /\ payload.username /= Omitted
    /\ payload.email.kind /= "omitted"
    /\ ~Empty(payload.email)
\* the response is the 400 made of the error
Failed(response, error) == response = cors_response(400, [error |-> error])
AlreadyExists(kind, name) ==
    IF kind = "user" THEN ValueError("User '{username}' already exists", name)
                     ELSE ValueError("Group '{group_name}' already exists", name)

(***************************************************************************)
(* C21.  POST /users (POST /groups) with a name that exists is answered    *)
(* 400 with the error "... '<name>' already exists" (or with the server's  *)
(* error when the server failed otherwise) and leaves the users (groups)   *)
(* as they were: no second entry.  With a name that does not exist it is   *)
(* answered 201 and the name is there once, unless the server failed: then *)
(* it is answered 400 with the server's error and nothing is added.        *)
(***************************************************************************)
C21_Duplicate ==
    /\ (Posted("/users") /\ ValidUser(call.event.body)) =>
         LET name == call.event.body.username
         IN  IF name \in Names(call.pre.users, "user")
               THEN /\ \/ Failed(call.response, AlreadyExists("user", name))
                       \/ Failed(call.response, Unavailable)
                    /\ drv.users = call.pre.users
               ELSE \/ /\ call.response.statusCode = 201
                       /\ call.response.body.username = name
                       /\ BagCardinality(drv.users) = BagCardinality(call.pre.users) + 1
                       /\ \E u \in BagToSet(drv.users) :
                            u.username = name /\ CopiesIn(u, drv.users) = 1
                    \/ /\ Failed(call.response, Unavailable)
                       /\ drv.users = call.pre.users
    /\ (Posted("/groups") /\ call.event.body.group_name /= Omitted) =>
         LET name == call.event.body.group_name
         IN  IF name \in Names(call.pre.groups, "group")
               THEN /\ \/ Failed(call.response, AlreadyExists("group", name))
                       \/ Failed(call.response, Unavailable)
                    /\ drv.groups = call.pre.groups
               ELSE \/ /\ call.response.statusCode = 201
                       /\ call.response.body.group_name = name
                       /\ drv.groups = call.pre.groups (+) SetToBag({name})
                    \/ /\ Failed(call.response, Unavailable)
                       /\ drv.groups = call.pre.groups
    \* a name is never there twice
    /\ \A u \in BagToSet(drv.users) :
         /\ CopiesIn(u, drv.users) = 1
         /\ \A v \in BagToSet(drv.users) : v.username = u.username => v = u
    /\ \A g \in BagToSet(drv.groups) : CopiesIn(g, drv.groups) = 1

\* "alice" was posted again, with other emails: 400, and the first entry
\* is the only one
C21_Witness ==
    /\ Posted("/users")
    /\ call.event.body = UserPayload("alice", Str("a@example.com"), Omitted)
    /\ Failed(call.response, AlreadyExists("user", "alice"))
    /\ drv.users = SetToBag({User("alice", {"a@example.com", "b@example.com"},
                                  HttpUri, NoneStr)})
    /\ drv.users = call.pre.users

\* the last invocation was the GET of the route, answered 200
Listed(route) ==
    /\ call.event.httpMethod = "GET"
    /\ call.event.path.route = route
    /\ call.response.statusCode = 200
\* the document that lists the user a payload created: the user-name, every
\* email, and the picture under the url or under the s3 uri
ListsUser(doc, payload) ==
    LET uri == payload.profile_picture_uri
    IN  /\ doc.username = payload.username
        /\ doc.email = ItemsOf(payload.email.items)
        /\ doc.profile_picture_url =
             (IF uri /= Omitted /\ startswith_http(uri) THEN uri ELSE NoneStr)
        /\ doc.profile_picture_s3_uri =
             (IF uri /= Omitted /\ ~startswith_http(uri) THEN uri ELSE NoneStr)

(***************************************************************************)
(* C22.  After a reset that returned 200, GET /users lists one document    *)
(* for each user created with 201 since, with its user-name, all its       *)
(* emails and its picture, and no other document; GET /groups lists one    *)
(* document for each group created with 201 since, and no other.           *)
(***************************************************************************)
C22_Listed ==
    /\ (Listed("/users") /\ call.created.valid) =>
         LET docs == call.response.body
         IN  /\ BagCardinality(docs) = Cardinality(call.created.users)
             /\ \A p \in call.created.users :
                  \E d \in BagToSet(docs) :
                    /\ ListsUser(d, p)
                    /\ CopiesIn(d, docs) = 1
                    /\ \A e \in BagToSet(docs) : e.username = p.username => e = d
             /\ \A d \in BagToSet(docs) :
                  \E p \in call.created.users : p.username = d.username
    /\ (Listed("/groups") /\ call.created.valid) =>
         LET docs == call.response.body
         IN  /\ BagToSet(docs) = {GroupDocument(g) : g \in call.created.groups}
             /\ \A d \in BagToSet(docs) : CopiesIn(d, docs) = 1

\* two users were created after a reset, one with two emails and a picture
\* url, and both are listed
C22_Witness ==
    /\ Listed("/users")
    /\ call.created.valid
    /\ call.created.users =
         {UserPayload("alice", List(<<"a@example.com", "b@example.com">>), HttpUri),
          UserPayload("bob", List(<<"b@example.com">>), S3Uri)}
    /\ BagCardinality(call.response.body) = 2
    /\ CopiesIn(User("alice", {"a@example.com", "b@example.com"}, HttpUri, NoneStr),
                call.response.body) = 1

(***************************************************************************)
(* C23.  After a reset that returned 200, GET /groups/{g}/members lists    *)
(* one document for each member (user or group) that a POST                *)
(* /groups/{g}/members answered 201 added to g since, the member and g     *)
(* having been created, and no other document: a member of another group   *)
(* or of a group that is a member of g is not listed.                      *)
(***************************************************************************)
C23_DirectMembers ==
    (Listed("/groups/{group_name}/members") /\ call.created.valid) =>
      LET g == call.event.path.name
          docs == call.response.body
          added == {m.member : m \in {x \in call.created.members : x.container = g}}
      IN  /\ BagToSet(docs) =
               {[member_name |-> m.member_name, group_name |-> g,
                 member_type |-> m.member_type] : m \in added}
          /\ \A d \in BagToSet(docs) : CopiesIn(d, docs) = 1

\* "alice" and the group "ops" were added to "devs", "bob" to "ops": the
\* members of "devs" are listed without "bob"
C23_Witness ==
    /\ Listed("/groups/{group_name}/members")
    /\ call.created.valid
    /\ call.event.path.name = "devs"
    /\ call.created.members =
         {Membership("devs", Member("user", "alice")),
          Membership("devs", Member("group", "ops")),
          Membership("ops", Member("user", "bob"))}
    /\ BagCardinality(call.response.body) = 2

(***************************************************************************)
(* C30.  In the write transaction of POST /users, POST /groups and POST    *)
(* /groups/{g}/members a commit is issued only after the query of that     *)
(* transaction succeeded.  When the query fails no commit is issued, the   *)
(* transaction is closed, the invocation answers 400 with the error, and   *)
(* the users, groups and memberships of the database are those it held     *)
(* before the invocation.                                                  *)
(***************************************************************************)
Wrote ==
    /\ call.event.httpMethod = "POST"
    /\ call.event.path.route \in {"/users", "/groups", "/groups/{group_name}/members"}
    /\ tx.type = "write"

C30_CommitAfterQuery ==
    Wrote =>
      /\ tx.commit_issued => tx.queried = "ok"
      /\ tx.queried = "failed" =>
           /\ ~tx.commit_issued
           /\ tx.closed
           /\ call.response.statusCode = 400
           /\ call.response.body.error.type /= "none"
           /\ drv.users = call.pre.users
           /\ drv.groups = call.pre.groups
           /\ drv.memberships = call.pre.memberships

\* the query of a POST failed in a database that holds a user, a group and a
\* membership
C30_Witness ==
    /\ Wrote
    /\ tx.queried = "failed"
    /\ tx.closed
    /\ call.pre.users /= EmptyBag
    /\ call.pre.groups /= EmptyBag
    /\ call.pre.memberships /= {}

(***************************************************************************)
(* C32.  Between the calls of _driver() and _cleanup_driver() the cached   *)
(* driver and its creation time are both absent or both present.  A        *)
(* _driver() call that raised and a _cleanup_driver() call leave both      *)
(* absent, and a _driver() call that finds both absent and does not raise  *)
(* caches the driver it created, with the time of the call.                *)
(***************************************************************************)
C32_BothOrNeither ==
    /\ (drv.global_driver = None) <=> (drv.driver_created_at = None)
    /\ (call.op = "_driver" /\ call.raised) => drv = NoDriver
    /\ call.op = "_cleanup_driver" => drv = NoDriver
    /\ (call.op = "_driver" /\ call.pre = NoDriver /\ ~call.raised) =>
         /\ call.out = call.made
         /\ call.alive
         /\ drv = Globals(call.out, call.now)

\* a second driver is created by a call that found the cache empty, after
\* the first was dropped by a cleanup or by a failed creation
C32_Witness ==
    /\ call.op = "_driver"
    /\ call.pre = NoDriver
    /\ ~call.raised
    /\ call.out = 2
    /\ drv = Globals(2, call.now)

\* a creation failed and left the cache empty
C32_WitnessFailed ==
    /\ call.op = "_driver"
    /\ call.raised
    /\ call.pre.global_driver /= None
    /\ drv = NoDriver

(***************************************************************************)
(* C31.  When the handler calls handle_request the database exists and     *)
(* has its schema: a missing database was created and a database without   *)
(* entity types got the schema, while a database that had its schema kept  *)
(* its users, groups and memberships.  After a POST /reset answered 200    *)
(* the database exists, has its schema and holds no user, group or         *)
(* membership.                                                             *)
(***************************************************************************)
EmptyWithSchema == Database("schema", EmptyBag, EmptyBag, {})

C31_SetUp ==
    /\ call.routed /= "no" => call.routed = "schema"
    /\ (call.routed /= "no" /\ call.event.httpMethod = "GET") =>
         IF call.pre.state = "schema" THEN drv = call.pre ELSE drv = EmptyWithSchema
    /\ (Posted("/reset") /\ call.response.statusCode = 200) => drv = EmptyWithSchema

\* a reset answered 200 in a database that held a user, a group and a
\* membership
C31_Witness ==
    /\ Posted("/reset")
    /\ call.response.statusCode = 200
    /\ call.routed = "schema"
    /\ call.pre.users /= EmptyBag
    /\ call.pre.groups /= EmptyBag
    /\ call.pre.memberships /= {}
    /\ drv = EmptyWithSchema

\* a request is routed after the setup loaded the schema into a database
\* that an earlier, failed setup had created without it
C31_WitnessLoaded ==
    /\ call.routed = "schema"
    /\ call.pre.state = "created"
    /\ call.event.httpMethod = "GET"
    /\ drv = EmptyWithSchema

====
